---- MODULE Spec2Model ----
(***************************************************************************)
(* A model of the deskbird command-line client (src/src/cli.ts and         *)
(* src/src/api.ts): the date/time normalisers, the resource lookup, the    *)
(* HTTP request layer and the command handlers.                            *)
(*                                                                         *)
(* Text is modelled as a sequence of one-character strings, so that        *)
(* parsing, padding, case folding and substring search are computed and    *)
(* not assumed.                                                            *)
(***************************************************************************)
EXTENDS Integers, Sequences, FiniteSets, TLC

\* ------------------------------------------------------------------ bounds

\* longest --start/--end text given to parseTime on its own
MaxTimeLen == 5

\* largest day and month number written in the date texts given to parseDate
MaxDay == 32
MaxMonth == 13

\* longest candidate list given to the resource lookup on its own
MaxCandidates == 3

\* ------------------------------------------------------------------ text

Digits == {"0", "1", "2", "3", "4", "5", "6", "7", "8", "9"}

DigitVal(c) ==
  CASE c = "0" -> 0 [] c = "1" -> 1 [] c = "2" -> 2 [] c = "3" -> 3
    [] c = "4" -> 4 [] c = "5" -> 5 [] c = "6" -> 6 [] c = "7" -> 7
    [] c = "8" -> 8 [] c = "9" -> 9

DigitChar(n) ==
  CASE n = 0 -> "0" [] n = 1 -> "1" [] n = 2 -> "2" [] n = 3 -> "3"
    [] n = 4 -> "4" [] n = 5 -> "5" [] n = 6 -> "6" [] n = 7 -> "7"
    [] n = 8 -> "8" [] n = 9 -> "9"

IsDigits(s) == \A i \in 1..Len(s) : s[i] \in Digits

\* String.prototype.toLowerCase on the letters the model uses
LowerChar(c) ==
  CASE c = "A" -> "a" [] c = "D" -> "d" [] c = "E" -> "e" [] c = "H" -> "h"
    [] c = "K" -> "k" [] c = "R" -> "r" [] c = "S" -> "s" [] c = "T" -> "t"
    [] OTHER -> c

toLowerCase(s) == [i \in 1..Len(s) |-> LowerChar(s[i])]

\* String.prototype.includes
includes(hay, needle) ==
  \E i \in 0..(Len(hay) - Len(needle)) :
    \A j \in 1..Len(needle) : hay[i + j] = needle[j]

\* value of a non-empty run of decimal digits
RECURSIVE DigitsValue(_)
DigitsValue(s) ==
  IF Len(s) = 0 THEN 0
  ELSE 10 * DigitsValue(SubSeq(s, 1, Len(s) - 1)) + DigitVal(s[Len(s)])

\* decimal digits of a natural number, without padding (Number.prototype.toString)
RECURSIVE toString(_)
toString(n) ==
  IF n < 10 THEN <<DigitChar(n)>>
  ELSE toString(n \div 10) \o <<DigitChar(n % 10)>>

\* String.prototype.padStart(width, '0')
RECURSIVE padStart(_, _)
padStart(s, width) == IF Len(s) >= width THEN s ELSE padStart(<<"0">> \o s, width)

\* ------------------------------------------------------------------ values

\* an optional command-line text: absent (undefined) or a string
Absent == [present |-> FALSE, text |-> <<>>]
Text(s) == [present |-> TRUE, text |-> s]

\* the outcome of a call: a returned string, a returned undefined, or a throw
Returned(s) == [kind |-> "value", val |-> s, error |-> "none"]
ReturnedUndefined == [kind |-> "undefined", val |-> <<>>, error |-> "none"]
Thrown(e) == [kind |-> "throw", val |-> <<>>, error |-> e]

\* JavaScript truthiness of an optional string: undefined and "" are falsy
Truthy(arg) == arg.present /\ Len(arg.text) > 0

\* ------------------------------------------------------------------ parseTime

\* /^(\d{1,2})(?:hs?)?$/i : the captured digits, or <<>> when there is no match
NumMatch(s) ==
  LET cands == {k \in 1..2 :
                  /\ Len(s) >= k
                  /\ IsDigits(SubSeq(s, 1, k))
                  /\ toLowerCase(SubSeq(s, k + 1, Len(s))) \in {<<>>, <<"h">>, <<"h", "s">>}}
  IN IF cands = {} THEN <<>> ELSE SubSeq(s, 1, CHOOSE k \in cands : TRUE)

\* /^(\d{1,2}):(\d{2})$/ : the two captures, or <<>> when there is no match
TimeMatch(s) ==
  LET cands == {k \in 1..2 :
                  /\ Len(s) = k + 3
                  /\ IsDigits(SubSeq(s, 1, k))
                  /\ s[k + 1] = ":"
                  /\ IsDigits(SubSeq(s, k + 2, k + 3))}
  IN IF cands = {} THEN <<>>
     ELSE LET k == CHOOSE k \in cands : TRUE
          IN <<SubSeq(s, 1, k), SubSeq(s, k + 2, k + 3)>>

\* the hour test without its upper limit
HourNotNegative(hour) == hour >= 0

\* hour >= 0 && hour <= 23
HourInRange(hour) == hour >= 0 /\ hour <= 23

MinInRange(min) == min >= 0 /\ min <= 59

parseTime(timeStr) ==
  IF ~Truthy(timeStr) THEN ReturnedUndefined
  ELSE
    LET s == timeStr.text
        numMatch == NumMatch(s)
        timeMatch == TimeMatch(s)
    IN IF numMatch # <<>> /\ HourInRange(DigitsValue(numMatch))
       THEN Returned(padStart(toString(DigitsValue(numMatch)), 2) \o <<":", "0", "0">>)
       ELSE IF /\ timeMatch # <<>>
               /\ HourInRange(DigitsValue(timeMatch[1]))
               /\ MinInRange(DigitsValue(timeMatch[2]))
       THEN Returned(padStart(toString(DigitsValue(timeMatch[1])), 2) \o <<":">>
                       \o padStart(toString(DigitsValue(timeMatch[2])), 2))
       ELSE Thrown("InvalidTime")

\* ------------------------------------------------------------------ dates

\* a calendar date (the local-time fields of a JavaScript Date), or Invalid Date
DateOf(y, m, d) == [valid |-> TRUE, y |-> y, m |-> m, d |-> d]
InvalidDateValue == [valid |-> FALSE, y |-> 0, m |-> 0, d |-> 0]

\* a parsed number, or NaN
Num(n) == [nan |-> FALSE, n |-> n]
NaN == [nan |-> TRUE, n |-> 0]

isLeapYear(y) == (y % 4 = 0 /\ y % 100 # 0) \/ y % 400 = 0

DaysInMonth(y, m) ==
  IF m \in {4, 6, 9, 11} THEN 30
  ELSE IF m = 2 THEN (IF isLeapYear(y) THEN 29 ELSE 28)
  ELSE 31

\* the Date constructor's carry of an out-of-range day into the neighbouring months
RECURSIVE NormalizeDay(_, _, _)
NormalizeDay(y, m, d) ==
  IF d < 1
  THEN LET py == IF m = 1 THEN y - 1 ELSE y
           pm == IF m = 1 THEN 12 ELSE m - 1
       IN NormalizeDay(py, pm, d + DaysInMonth(py, pm))
  ELSE IF d > DaysInMonth(y, m)
  THEN NormalizeDay(IF m = 12 THEN y + 1 ELSE y, IF m = 12 THEN 1 ELSE m + 1,
                    d - DaysInMonth(y, m))
  ELSE DateOf(y, m, d)

\* new Date(year, monthIndex, day): a two-digit year means 19xx, and month and
\* day outside the calendar are carried over, not rejected
NewDate(year, monthIndex, day) ==
  IF year.nan \/ monthIndex.nan \/ day.nan THEN InvalidDateValue
  ELSE LET fullYear == IF year.n >= 0 /\ year.n <= 99 THEN 1900 + year.n ELSE year.n
       IN NormalizeDay(fullYear + (monthIndex.n \div 12), (monthIndex.n % 12) + 1, day.n)

\* date-fns isValid
isValid(date) == date.valid

\* date-fns addDays
addDays(date, amount) == NormalizeDay(date.y, date.m, date.d + amount)

\* date-fns format(date, 'yyyy-MM-dd')
format(date) ==
  padStart(toString(date.y), 4) \o <<"-">> \o padStart(toString(date.m), 2)
    \o <<"-">> \o padStart(toString(date.d), 2)

\* parseInt(s, 10) on unsigned text: the leading run of digits, NaN when there is none
RECURSIVE DigitPrefix(_)
DigitPrefix(s) ==
  IF Len(s) = 0 \/ s[1] \notin Digits THEN <<>>
  ELSE <<s[1]>> \o DigitPrefix(Tail(s))

parseInt(s) == IF DigitPrefix(s) = <<>> THEN NaN ELSE Num(DigitsValue(DigitPrefix(s)))

\* String.prototype.split(sep) for a one-character separator
RECURSIVE splitBy(_, _)
splitBy(s, sep) ==
  IF \A i \in 1..Len(s) : s[i] # sep THEN <<s>>
  ELSE LET i == CHOOSE i \in 1..Len(s) : s[i] = sep /\ \A j \in 1..(i - 1) : s[j] # sep
       IN <<SubSeq(s, 1, i - 1)>> \o splitBy(SubSeq(s, i + 1, Len(s)), sep)

split(s) == splitBy(s, "/")

\* date-fns parseISO's year: four digits followed by anything, or a two-digit century
parseYear(s) ==
  IF Len(s) >= 4 /\ IsDigits(SubSeq(s, 1, 4))
  THEN [year |-> Num(DigitsValue(SubSeq(s, 1, 4))), rest |-> SubSeq(s, 5, Len(s))]
  ELSE IF Len(s) = 2 /\ IsDigits(s)
  THEN [year |-> Num(100 * DigitsValue(s)), rest |-> <<>>]
  ELSE [year |-> NaN, rest |-> <<>>]

\* date-fns validateDate
validateDate(year, month, day) ==
  month >= 1 /\ month <= 12 /\ day >= 1 /\ day <= DaysInMonth(year, month)

\* date-fns validateDayOfYearDate
validateDayOfYearDate(year, dayOfYear) ==
  dayOfYear >= 1 /\ dayOfYear <= (IF isLeapYear(year) THEN 366 ELSE 365)

\* date-fns parseISO's date part after the year:
\* /^-?(?:(\d{3})|(\d{2})(?:-?(\d{2}))?|)$/ (week dates are not modelled)
parseISODate(rest, year) ==
  LET r == IF Len(rest) > 0 /\ rest[1] = "-" THEN Tail(rest) ELSE rest
      ymd(doy, month, day) ==
        IF validateDate(year, month, day) /\ validateDayOfYearDate(year, doy)
        THEN NormalizeDay(year, month, IF doy > day THEN doy ELSE day)
        ELSE InvalidDateValue
  IN IF r = <<>> THEN ymd(1, 1, 1)
     ELSE IF Len(r) = 3 /\ IsDigits(r) THEN ymd(DigitsValue(r), 1, 1)
     ELSE IF Len(r) = 2 /\ IsDigits(r) THEN ymd(1, DigitsValue(r), 1)
     ELSE IF Len(r) = 4 /\ IsDigits(r)
     THEN ymd(1, DigitsValue(SubSeq(r, 1, 2)), DigitsValue(SubSeq(r, 3, 4)))
     ELSE IF Len(r) = 5 /\ IsDigits(SubSeq(r, 1, 2)) /\ r[3] = "-" /\ IsDigits(SubSeq(r, 4, 5))
     THEN ymd(1, DigitsValue(SubSeq(r, 1, 2)), DigitsValue(SubSeq(r, 4, 5)))
     ELSE InvalidDateValue

\* date-fns parseISO on text without a time or zone part
parseISO(s) ==
  LET py == parseYear(s)
  IN IF py.year.nan THEN InvalidDateValue ELSE parseISODate(py.rest, py.year.n)

S_hoy == <<"h", "o", "y">>
S_today == <<"t", "o", "d", "a", "y">>
\* "n~" stands for the single letter n-tilde
S_manana_tilde == <<"m", "a", "n~", "a", "n", "a">>
S_manana == <<"m", "a", "n", "a", "n", "a">>
S_tomorrow == <<"t", "o", "m", "o", "r", "r", "o", "w">>

\* the year used when a D/M date names none
DefaultYear(parts, now) ==
  IF Len(parts) >= 3 /\ Len(parts[3]) > 0 THEN parseInt(parts[3]) ELSE Num(now.y)

\* the Date built from the parts of a D/M[/Y] text
DateFromParts(parts, now) ==
  LET day == parseInt(parts[1])
      mon == parseInt(parts[2])
      month == IF mon.nan THEN NaN ELSE Num(mon.n - 1)
  IN NewDate(DefaultYear(parts, now), month, day)

parseDate(dateStr, now) ==
  IF ~Truthy(dateStr) \/ dateStr.text = S_hoy \/ dateStr.text = S_today
  THEN Returned(format(now))
  ELSE IF dateStr.text \in {S_manana_tilde, S_manana, S_tomorrow}
  THEN Returned(format(addDays(now, 1)))
  ELSE IF isValid(parseISO(dateStr.text))
  THEN Returned(format(parseISO(dateStr.text)))
  ELSE LET parts == split(dateStr.text)
       IN IF Len(parts) >= 2 /\ isValid(DateFromParts(parts, now))
          THEN Returned(format(DateFromParts(parts, now)))
          ELSE Thrown("InvalidDate")

\* ------------------------------------------------------------------ resource lookup

\* a Resource (types.ts), and the undefined that Array.prototype.find gives
ResourceOf(id, name, type) == [id |-> id, name |-> name, type |-> type]
NoResource == [id |-> <<>>, name |-> <<>>, type |-> "undefined"]

\* the predicate handed to resources.find in book, cancel and checkin
MatchesArg(r, resourceArg) ==
  \/ r.id = resourceArg
  \/ toLowerCase(r.name) = toLowerCase(resourceArg)
  \/ includes(toLowerCase(r.name), toLowerCase(resourceArg))

\* resources.find(r => ...): the first element the predicate accepts
findResource(resources, resourceArg) ==
  LET hits == {i \in 1..Len(resources) : MatchesArg(resources[i], resourceArg)}
  IN IF hits = {} THEN NoResource
     ELSE resources[CHOOSE i \in hits : \A j \in hits : i <= j]

\* ------------------------------------------------------------------ request layer

\* a response body: text that is a JSON document (doc is the value it denotes),
\* other non-empty text (doc holds the text), or no text at all
JsonBody(doc) == [syntax |-> "json", doc |-> doc]
TextBody(t) == [syntax |-> "text", doc |-> [text |-> t]]
EmptyBody == [syntax |-> "empty", doc |-> [text |-> ""]]

\* the JSON documents null and {"message": m}
JsonNull == [null |-> TRUE]
JsonMessage(m) == [message |-> m]

\* what fetch resolves with, or its rejection on a network failure
Reply(status, body) == [net |-> "ok", status |-> status, body |-> body]
NetworkFailure == [net |-> "failed", status |-> 0, body |-> EmptyBody]

\* the two renderings of a body that an error can carry
ParsedJson(doc) == [as |-> "json", doc |-> doc]
RawText(body) == [as |-> "text", doc |-> body.doc]
NoBody == [as |-> "none", doc |-> [text |-> ""]]

\* outcomes of the request layer
Resolved(doc) == [kind |-> "value", val |-> doc, error |-> "none"]
Rejected(name) ==
  [kind |-> "throw", error |-> name, statusCode |-> 0, message |-> name, response |-> NoBody]
DeskbirdAPIError(statusCode, message, response) ==
  [kind |-> "throw", error |-> "DeskbirdAPIError", statusCode |-> statusCode,
   message |-> message, response |-> response]

\* Response.ok
ok(status) == status >= 200 /\ status <= 299

\* Response.json(): reads the body, which is then used up, and parses it
responseJson(body, bodyUsed) ==
  IF bodyUsed THEN Rejected("TypeError")
  ELSE IF body.syntax = "json" THEN Resolved(ParsedJson(body.doc))
  ELSE Rejected("SyntaxError")

\* Response.text(): rejects when the body has been read already
responseText(body, bodyUsed) ==
  IF bodyUsed THEN Rejected("TypeError") ELSE Resolved(RawText(body))

\* whether a first read that failed to parse leaves the body used up
BodyUsedAfterJson == TRUE

\* the message of the error thrown for a status
ErrorMessage(status) ==
  CASE status = 401 -> "Invalid API key. Check your DESKBIRD_API_KEY."
    [] status = 403 -> "Not authorized to access this resource."
    [] status = 429 -> "Rate limit exceeded. Please wait before retrying."
    [] OTHER -> "API request failed"

\* DeskbirdClient.request once fetch has settled with reply
request(reply) ==
  IF reply.net = "failed" THEN Rejected("TypeError")
  ELSE IF ~ok(reply.status)
  THEN LET parsed == responseJson(reply.body, FALSE)
           raw == responseText(reply.body, BodyUsedAfterJson)
       IN IF parsed.kind = "value"
          THEN DeskbirdAPIError(reply.status, ErrorMessage(reply.status), parsed.val)
          ELSE IF raw.kind = "value"
          THEN DeskbirdAPIError(reply.status, ErrorMessage(reply.status), raw.val)
          ELSE raw
  ELSE LET parsed == responseJson(reply.body, FALSE)
       IN IF parsed.kind = "value" THEN Resolved(parsed.val.doc) ELSE parsed

\* the call handed to fetch: method, path, and the query and body fields set
Request(method, path, params) == [method |-> method, path |-> path, params |-> params]

\* an undefined field, which request leaves out of the query string
NotSet == <<>>

NoParams ==
  [officeId |-> NotSet, type |-> "", startDate |-> NotSet, endDate |-> NotSet,
   userId |-> NotSet, resourceId |-> NotSet, bookingId |-> NotSet,
   startTime |-> NotSet, endTime |-> NotSet]

\* DeskbirdClient.listOffices
listOfficesRequest == Request("GET", "/offices", NoParams)

\* DeskbirdClient.listResources (limit 100 and offset 0 go with every list call)
listResourcesRequest(officeId, type) ==
  Request("GET", "/resources", [NoParams EXCEPT !.officeId = officeId, !.type = type])

\* DeskbirdClient.listBookings
listBookingsRequest(startDate, endDate, userId, officeId, resourceId) ==
  Request("GET", "/bookings",
          [NoParams EXCEPT !.startDate = startDate, !.endDate = endDate, !.userId = userId,
                           !.officeId = officeId, !.resourceId = resourceId])

\* DeskbirdClient.createBooking: the data is sent as the JSON body
createBookingRequest(userId, resourceId, startTime, endTime) ==
  Request("POST", "/bookings",
          [NoParams EXCEPT !.userId = userId, !.resourceId = resourceId,
                           !.startTime = startTime, !.endTime = endTime])

\* DeskbirdClient.cancelBooking: no body
cancelBookingRequest(bookingId) ==
  Request("DELETE", "/bookings/{id}", [NoParams EXCEPT !.bookingId = bookingId])

\* DeskbirdClient.checkIn: no body
checkInRequest(bookingId) ==
  Request("PATCH", "/bookings/{id}/check-in", [NoParams EXCEPT !.bookingId = bookingId])

\* ------------------------------------------------------------------ state

VARIABLES
  input,     \* what the run is given: the arguments of one call, or the command line and the clock
  output,    \* the outcome of the one call (Pending until it is made)
  pc,        \* where the command handler stands: the await it is suspended at
  local,     \* the handler's local variables
  sent,      \* the requests handed to fetch so far, in order
  pending,   \* the positions in sent of the requests not yet settled
  replies,   \* what fetch settled with so far, in order, each with its request's position
  console,   \* the lines printed so far
  exitCode   \* the process exit status, Running until the process ends

vars == <<input, output, pc, local, sent, pending, replies, console, exitCode>>

Pending == [kind |-> "pending", val |-> <<>>, error |-> "none"]
Running == -1

\* a Booking (types.ts), and the undefined that bookings[0] gives on an empty array
BookingOf(id, resourceId, userId, startTime, endTime, firstName) ==
  [id |-> id, resourceId |-> resourceId, userId |-> userId,
   startTime |-> startTime, endTime |-> endTime, firstName |-> firstName]
NoBooking == BookingOf(<<>>, <<>>, <<>>, <<>>, <<>>, <<>>)

\* the handler's locals before any is assigned
NoLocals ==
  [date |-> <<>>, startTime |-> <<>>, endTime |-> <<>>, resources |-> <<>>,
   resource |-> NoResource, bookings |-> <<>>, booking |-> NoBooking,
   tomorrowBookings |-> <<>>, offices |-> <<>>]

HandlerIdle ==
  /\ pc = "idle"
  /\ local = NoLocals
  /\ sent = <<>>
  /\ pending = {}
  /\ replies = <<>>
  /\ console = <<>>
  /\ exitCode = Running

handlerVars == <<pc, local, sent, pending, replies, console, exitCode>>

\* a request layer that sends every request again
fetchTwice(req) == sent' = sent \o <<req, req>>

\* fetch(url, {method, headers, body}) is called with req
fetch(req) == sent' = Append(sent, req)

SeqsUpTo(alphabet, n) == UNION {[1..k -> alphabet] : k \in 0..n}

\* ------------------------------------------------------------------ parseTime on its own

TimeAlphabet == {"0", "2", "9", "h", "H", "s", ":"}

TimeInputs == {Absent} \cup {Text(s) : s \in SeqsUpTo(TimeAlphabet, MaxTimeLen)}

InitTime ==
  /\ input \in {[fn |-> "parseTime", timeStr |-> t] : t \in TimeInputs}
  /\ output = Pending
  /\ HandlerIdle

CallParseTime ==
  /\ input.fn = "parseTime"
  /\ output = Pending
  /\ output' = parseTime(input.timeStr)
  /\ UNCHANGED <<input, handlerVars>>

NextTime == CallParseTime

SpecTime == InitTime /\ [][NextTime]_vars

\* ------------------------------------------------------------------ parseDate on its own

\* the ways of writing a day or month number: bare, and zero-padded to two digits
NumberTexts(n) == {toString(n), padStart(toString(n), 2)}

IsoText(y, m, d) ==
  padStart(toString(y), 4) \o <<"-">> \o padStart(toString(m), 2)
    \o <<"-">> \o padStart(toString(d), 2)

Clocks == {DateOf(2024, 2, 28), DateOf(2023, 12, 31), DateOf(2024, 3, 15)}

IsoYears == {2023, 2024}

WrittenYears == {24, 2023, 2024}

S_not_a_date == <<"n", "o", "t", "-", "a", "-", "d", "a", "t", "e">>

OtherDateTexts ==
  { S_not_a_date,
    <<"1", "5">>,
    <<"2", "0", "2", "4">>,
    <<"2", "0", "2", "4", "-", "0", "3">>,
    <<"2", "0", "2", "4", "0", "3", "1", "5">>,
    <<"2", "0", "2", "4", "-", "3", "-", "5">>,
    <<"a", "/", "b">>,
    <<"1", "5", "/", "x">>,
    <<"1", "5", "/", "3", "/">>,
    <<"1", "5", "/", "3", "/", "x">>,
    <<"1", "/", "2", "/", "2", "0", "2", "4", "/", "9">>,
    <<"2", "0", "2", "4", "/", "3", "/", "1", "5">> }

DateTexts ==
  {<<>>, S_hoy, S_today, S_manana_tilde, S_manana, S_tomorrow}
    \cup {IsoText(y, m, d) : y \in IsoYears, m \in 0..MaxMonth, d \in 0..MaxDay}
    \cup UNION {{dt \o <<"/">> \o mt : dt \in NumberTexts(d), mt \in NumberTexts(m)} :
                  d \in 0..MaxDay, m \in 0..MaxMonth}
    \cup UNION {{dt \o <<"/">> \o mt \o <<"/">> \o toString(y) :
                   dt \in NumberTexts(d[1]), mt \in NumberTexts(d[2])} :
                  d \in (0..MaxDay) \X (0..MaxMonth), y \in WrittenYears}
    \cup OtherDateTexts

DateInputs == {Absent} \cup {Text(s) : s \in DateTexts}

InitDate ==
  /\ input \in {[fn |-> "parseDate", dateStr |-> t, now |-> c] : t \in DateInputs, c \in Clocks}
  /\ output = Pending
  /\ HandlerIdle

CallParseDate ==
  /\ input.fn = "parseDate"
  /\ output = Pending
  /\ output' = parseDate(input.dateStr, input.now)
  /\ UNCHANGED <<input, handlerVars>>

NextDate == CallParseDate

SpecDate == InitDate /\ [][NextDate]_vars

\* ------------------------------------------------------------------ C10

\* "HH:MM" written with two digits each
ClockText(h, m) == padStart(toString(h), 2) \o <<":">> \o padStart(toString(m), 2)

\* the hours 0..23 that s writes as a bare hour of one or two digits plus a suffix
BareHours(s, suffixes) ==
  {h \in 0..23 : \E x \in NumberTexts(h), suf \in suffixes : s = x \o suf}

\* the times that s writes as H:MM or HH:MM with hour 0..23 and minute 0..59
ClockTimes(s) ==
  IF Len(s) \notin {4, 5} THEN {}
  ELSE IF s[Len(s) - 2] # ":" THEN {}
  ELSE {h \in 0..23 : SubSeq(s, 1, Len(s) - 3) \in NumberTexts(h)}
         \X {m \in 0..59 : SubSeq(s, Len(s) - 1, Len(s)) = padStart(toString(m), 2)}

\* what normalizeTime is said to give for t
StatedTime(t, emptyIsAbsent, suffixes) ==
  IF ~t.present \/ (emptyIsAbsent /\ t.text = <<>>) THEN {ReturnedUndefined}
  ELSE LET bare == BareHours(t.text, suffixes)
           clock == ClockTimes(t.text)
       IN IF bare # {} THEN {Returned(ClockText(h, 0)) : h \in bare}
          ELSE IF clock # {} THEN {Returned(ClockText(hm[1], hm[2])) : hm \in clock}
          ELSE {Thrown("InvalidTime")}

\* undefined, a thrown InvalidTime, or five characters HH:MM with hour 0..23, minute 0..59
TimeResultWellFormed(r) ==
  \/ r = ReturnedUndefined
  \/ r = Thrown("InvalidTime")
  \/ /\ r.kind = "value"
     /\ Len(r.val) = 5
     /\ r.val[3] = ":"
     /\ IsDigits(SubSeq(r.val, 1, 2)) /\ IsDigits(SubSeq(r.val, 4, 5))
     /\ DigitsValue(SubSeq(r.val, 1, 2)) <= 23
     /\ DigitsValue(SubSeq(r.val, 4, 5)) <= 59

LowerSuffixes == {<<>>, <<"h">>, <<"h", "s">>}

AnyCaseSuffixes ==
  {<<>>, <<"h">>, <<"H">>, <<"h", "s">>, <<"H", "s">>, <<"h", "S">>, <<"H", "S">>}

\* C10 as stated: normalizeTime gives undefined for absent input (the empty text
\* counted as absent), "hh:00" for a bare hour 0..23 optionally followed by "h" or
\* "hs", "HH:MM" for H:MM or HH:MM with hour 0..23 and minute 0..59, and
\* InvalidTime for every other input; every value returned is undefined or a
\* five-character HH:MM in range.
C10_AsStated ==
  (input.fn = "parseTime" /\ output # Pending) =>
    /\ output \in StatedTime(input.timeStr, TRUE, LowerSuffixes)
    /\ TimeResultWellFormed(output)

\* C10 amended: as stated, with the "h" / "hs" suffix of a bare hour (one or two
\* digits) accepted in any letter case, and undefined also for the empty text.
C10_NormalizeTime ==
  (input.fn = "parseTime" /\ output # Pending) =>
    /\ output \in StatedTime(input.timeStr, TRUE, AnyCaseSuffixes)
    /\ TimeResultWellFormed(output)

\* "9:20" has been normalised to "09:20", and so has been seen in range
C10_Witness ==
  /\ input.fn = "parseTime"
  /\ input.timeStr = Text(<<"9", ":", "2", "0">>)
  /\ output = Returned(<<"0", "9", ":", "2", "0">>)

\* ------------------------------------------------------------------ C9

\* a day that exists in the calendar
CalendarDate(y, m, d) == m \in 1..12 /\ d >= 1 /\ d <= DaysInMonth(y, m)

\* the calendar day after c
DayAfter(c) ==
  IF c.d < DaysInMonth(c.y, c.m) THEN DateOf(c.y, c.m, c.d + 1)
  ELSE IF c.m < 12 THEN DateOf(c.y, c.m + 1, 1)
  ELSE DateOf(c.y + 1, 1, 1)

\* the calendar dates of year y that s writes as D/M
DayMonthDates(s, y) ==
  IF Len(s) \notin 3..5 THEN {}
  ELSE {ymd \in {y} \X (1..12) \X (1..31) :
          /\ CalendarDate(ymd[1], ymd[2], ymd[3])
          /\ \E dt \in NumberTexts(ymd[3]), mt \in NumberTexts(ymd[2]) : s = dt \o <<"/">> \o mt}

\* the calendar dates that s writes as D/M/Y
DayMonthYearDates(s) ==
  UNION {IF Len(s) > Len(toString(y)) + 1
            /\ SubSeq(s, Len(s) - Len(toString(y)), Len(s)) = <<"/">> \o toString(y)
         THEN DayMonthDates(SubSeq(s, 1, Len(s) - Len(toString(y)) - 1), y)
         ELSE {} : y \in WrittenYears}

\* the calendar dates that s writes as YYYY-MM-DD
IsoDates(s) ==
  IF Len(s) # 10 THEN {}
  ELSE {ymd \in IsoYears \X (1..12) \X (1..31) :
          CalendarDate(ymd[1], ymd[2], ymd[3]) /\ s = IsoText(ymd[1], ymd[2], ymd[3])}

\* what normalizeDate is said to give for t when the current date is now
StatedDate(t, now) ==
  IF ~Truthy(t) \/ t.text \in {S_today, S_hoy}
  THEN {Returned(IsoText(now.y, now.m, now.d))}
  ELSE IF t.text \in {S_tomorrow, S_manana_tilde, S_manana}
  THEN {Returned(IsoText(DayAfter(now).y, DayAfter(now).m, DayAfter(now).d))}
  ELSE LET iso == IsoDates(t.text)
           dmy == DayMonthDates(t.text, now.y) \cup DayMonthYearDates(t.text)
       IN IF iso # {} THEN {Returned(IsoText(ymd[1], ymd[2], ymd[3])) : ymd \in iso}
          ELSE IF dmy # {} THEN {Returned(IsoText(ymd[1], ymd[2], ymd[3])) : ymd \in dmy}
          ELSE {Thrown("InvalidDate")}

\* a thrown InvalidDate, or ten characters YYYY-MM-DD
DateResultWellFormed(r) ==
  \/ r = Thrown("InvalidDate")
  \/ /\ r.kind = "value"
     /\ Len(r.val) = 10
     /\ r.val[5] = "-" /\ r.val[8] = "-"
     /\ IsDigits(SubSeq(r.val, 1, 4))
     /\ IsDigits(SubSeq(r.val, 6, 7))
     /\ IsDigits(SubSeq(r.val, 9, 10))

\* C9: normalizeDate gives the current date for absent input, "today" and "hoy",
\* the next day for "tomorrow", "manana" and its accented form, the same date for
\* a YYYY-MM-DD calendar date, and the date with exactly that day, month and year
\* (the current year when none is written) for D/M and D/M/Y; the result is a
\* zero-padded YYYY-MM-DD, and every other input, a D/M/Y outside the calendar
\* included, fails with InvalidDate.
C9_NormalizeDate ==
  (input.fn = "parseDate" /\ output # Pending) =>
    /\ output \in StatedDate(input.dateStr, input.now)
    /\ DateResultWellFormed(output)

\* a D/M/Y text naming day 32 has been given to parseDate
C9_Witness ==
  /\ input.fn = "parseDate"
  /\ input.dateStr = Text(<<"3", "2", "/", "1", "/", "2", "0", "2", "4">>)
  /\ output # Pending

\* ------------------------------------------------------------------ the resource lookup on its own

S_r1 == <<"r", "1">>
S_r2 == <<"r", "2">>
S_d1 == <<"d", "1">>
S_D1 == <<"D", "1">>
S_D12 == <<"D", "1", "2">>
S_K2 == <<"K", "2">>

LookupIds == {S_r1, S_r2, S_d1}

LookupNames == {S_D1, S_D12, S_d1, S_K2}

LookupArgs == {S_r1, S_r2, S_d1, S_D1, <<"d">>, <<"1", "2">>, <<"z">>, <<>>}

\* candidate lists: resources with distinct identifiers, in any order
CandidateLists ==
  {c \in SeqsUpTo({ResourceOf(i, n, "flexDesk") : i \in LookupIds, n \in LookupNames},
                  MaxCandidates) :
     \A i, j \in 1..Len(c) : i # j => c[i].id # c[j].id}

InitLookup ==
  /\ input \in {[fn |-> "find", resourceArg |-> a, resources |-> c] :
                  a \in LookupArgs, c \in CandidateLists}
  /\ output = Pending
  /\ HandlerIdle

CallFind ==
  /\ input.fn = "find"
  /\ output = Pending
  /\ output' = [kind |-> "value", val |-> <<>>, error |-> "none",
                resource |-> findResource(input.resources, input.resourceArg)]
  /\ UNCHANGED <<input, handlerVars>>

NextLookup == CallFind

SpecLookup == InitLookup /\ [][NextLookup]_vars

\* ------------------------------------------------------------------ C1

\* the candidates that the tiers name: all with the identifier; failing that all
\* with the name, letter case aside; failing that the first containing the token
TierChoices(token, candidates) ==
  LET byId == {i \in 1..Len(candidates) : candidates[i].id = token}
      byName == {i \in 1..Len(candidates) :
                   toLowerCase(candidates[i].name) = toLowerCase(token)}
      bySub == {i \in 1..Len(candidates) :
                  includes(toLowerCase(candidates[i].name), toLowerCase(token))}
  IN IF byId # {} THEN {candidates[i] : i \in byId}
     ELSE IF byName # {} THEN {candidates[i] : i \in byName}
     ELSE IF bySub # {} THEN {candidates[CHOOSE i \in bySub : \A j \in bySub : i <= j]}
     ELSE {NoResource}

\* C1: the lookup is tiered over the whole candidate list: a candidate with the
\* token as identifier is returned if there is one; otherwise one whose name is
\* the token, letter case aside; only otherwise the first whose name contains it.
C1_TieredLookup ==
  (input.fn = "find" /\ output # Pending) =>
    output.resource \in TierChoices(input.resourceArg, input.resources)

\* a lookup of "d1" among a list where "D12" comes before "D1" has been made
C1_Witness ==
  /\ input.fn = "find"
  /\ output # Pending
  /\ input.resourceArg = S_d1
  /\ input.resources = <<ResourceOf(S_r1, S_D12, "flexDesk"), ResourceOf(S_r2, S_D1, "flexDesk")>>

\* ------------------------------------------------------------------ request on its own

Statuses == {200, 201, 204, 400, 401, 403, 404, 409, 429, 500, 503}

ErrorDocs == {JsonMessage("conflict"), JsonNull}

Bodies ==
  {JsonBody(d) : d \in ErrorDocs} \cup {TextBody("Internal Server Error"), EmptyBody}

Endpoints ==
  { Request("GET", "/offices", NoParams),
    listResourcesRequest(<<"o", "1">>, ""),
    listBookingsRequest(<<"d">>, <<"d">>, <<"u", "1">>, NotSet, NotSet),
    createBookingRequest(<<"u", "1">>, <<"r", "1">>, <<"s">>, <<"e">>),
    cancelBookingRequest(<<"b", "1">>),
    checkInRequest(<<"b", "1">>) }

InitRequest ==
  /\ input \in {[fn |-> "request", call |-> e, reply |-> r] :
                  e \in Endpoints,
                  r \in {NetworkFailure} \cup {Reply(st, b) : st \in Statuses, b \in Bodies}}
  /\ output = Pending
  /\ HandlerIdle

\* one call of DeskbirdClient.request: fetch is called once, then the reply is handled
CallRequest ==
  /\ input.fn = "request"
  /\ output = Pending
  /\ fetch(input.call)
  /\ replies' = Append(replies, [of |-> Len(sent'), reply |-> input.reply])
  /\ output' = request(input.reply)
  /\ UNCHANGED <<input, pc, local, pending, console, exitCode>>

NextRequest == CallRequest

SpecRequest == InitRequest /\ [][NextRequest]_vars

\* ------------------------------------------------------------------ C2

\* the error kinds of the request layer, as the status code and message thrown
Unauthorized(e) == e.statusCode = 401 /\ e.message = "Invalid API key. Check your DESKBIRD_API_KEY."
Forbidden(e) == e.statusCode = 403 /\ e.message = "Not authorized to access this resource."
RateLimited(e) == e.statusCode = 429 /\ e.message = "Rate limit exceeded. Please wait before retrying."
RequestFailed(e, status) == e.statusCode = status /\ e.message = "API request failed"

\* C2: for every non-success response, whatever its body, request fails with an
\* API error whose kind follows from the status alone (401 Unauthorized, 403
\* Forbidden, 429 RateLimited, any other RequestFailed with that status), carrying
\* the body parsed as JSON when it parses and the raw text otherwise.
C2_ErrorClassification ==
  (input.fn = "request" /\ output # Pending /\ input.reply.net = "ok"
     /\ ~(input.reply.status \in 200..299)) =>
    /\ output.kind = "throw"
    /\ output.error = "DeskbirdAPIError"
    /\ CASE input.reply.status = 401 -> Unauthorized(output)
         [] input.reply.status = 403 -> Forbidden(output)
         [] input.reply.status = 429 -> RateLimited(output)
         [] OTHER -> RequestFailed(output, input.reply.status)
    /\ output.response =
         IF input.reply.body.syntax = "json" THEN ParsedJson(input.reply.body.doc)
         ELSE RawText(input.reply.body)

\* a 500 response with a plain-text body has been handled
C2_Witness ==
  /\ input.fn = "request"
  /\ output # Pending
  /\ input.reply = Reply(500, TextBody("Internal Server Error"))

\* ------------------------------------------------------------------ the commands

\* getCurrentUser().id and getConfig().defaultOfficeId of the run
S_user == <<"u", "1">>
S_office == <<"o", "1">>

S_0900 == <<"0", "9", ":", "0", "0">>
S_1800 == <<"1", "8", ":", "0", "0">>

\* `${date}T${time}:00.000Z`
Instant(date, time) ==
  date \o <<"T">> \o time \o <<":", "0", "0", ".", "0", "0", "0", "Z">>

\* the fallback taken whatever the option says
AlwaysDefault(parsed, fallback) == fallback

\* parseTime(option) || fallback
OrDefault(parsed, fallback) == IF parsed.kind = "value" THEN parsed.val ELSE fallback

\* a printed line
Line(stream, msg) == [stream |-> stream, msg |-> msg, error |-> "none", statusCode |-> 0]

\* formatDate: format(parseISO(date), ...) throws RangeError on an Invalid Date
formatDate(date) ==
  IF isValid(parseISO(date)) THEN Returned(date) ELSE Thrown("RangeError")

\* formatTime: isoDateTime.split('T')[1]?.substring(0, 5) || ''
formatTime(isoDateTime) ==
  LET parts == splitBy(isoDateTime, "T")
  IN IF Len(parts) < 2 THEN <<>>
     ELSE SubSeq(parts[2], 1, IF Len(parts[2]) < 5 THEN Len(parts[2]) ELSE 5)

\* whether handleError dumps err.response: null and "" are falsy
ResponseTruthy(response) ==
  /\ response.as # "none"
  /\ ~(response.as = "json" /\ response.doc = JsonNull)
  /\ ~(response.as = "text" /\ response.doc.text = "")

\* process.exit(code) after printing lines
Exit(lines, code) ==
  /\ console' = console \o lines
  /\ exitCode' = code
  /\ pc' = "exited"
  /\ pending' = {}

\* handleError(err): one line for the error, the response dump for an API error
\* that carries one, then process.exit(1)
handleError(err) ==
  Exit(<<[stream |-> "stderr", msg |-> "Error", error |-> err.error,
          statusCode |-> err.statusCode]>>
         \o (IF err.error = "DeskbirdAPIError" /\ ResponseTruthy(err.response)
             THEN <<Line("stderr", "response dump")>> ELSE <<>>),
       1)

\* the handler returns and the process ends
Return(lines) ==
  /\ console' = console \o lines
  /\ exitCode' = 0
  /\ pc' = "done"
  /\ pending' = {}

\* await of one request: it is handed to fetch and the handler is suspended at next
Await(req, next) ==
  /\ fetch(req)
  /\ pending' = {Len(sent')}
  /\ pc' = next

NoError == Rejected("none")

\* loadConfig throws when DESKBIRD_API_KEY is not set
ConfigError(apiKey) == IF apiKey THEN NoError ELSE Rejected("ConfigError")

\* the throw of a normaliser as the error it raises
ErrorOf(result) == IF result.kind = "throw" THEN Rejected(result.error) ELSE NoError

\* the first error of a sequence of steps, NoError when none fails
RECURSIVE FirstError(_)
FirstError(steps) ==
  IF Len(steps) = 0 THEN NoError
  ELSE IF Head(steps) # NoError THEN Head(steps)
  ELSE FirstError(Tail(steps))

\* ---- what the remote service may answer

R1 == ResourceOf(S_r1, S_D1, "flexDesk")
R2 == ResourceOf(S_r2, S_D12, "flexDesk")
R3 == ResourceOf(<<"r", "3">>, S_K2, "meetingRoom")

ResourceLists == {<<>>, <<R1, R2>>, <<R2, R1>>, <<R3, R1>>, <<R1, R3, R2>>}

\* an Office (types.ts)
OfficeOf(id, name) == [id |-> id, name |-> name]

OfficeLists ==
  {<<>>, <<OfficeOf(S_office, <<"H", "Q">>)>>,
   <<OfficeOf(<<"o", "2">>, <<"L", "a", "b">>), OfficeOf(S_office, <<"H", "Q">>)>>}

CliClock == DateOf(2024, 2, 28)

B1 == BookingOf(<<"b", "1">>, S_r1, S_user, Instant(format(CliClock), S_0900),
                Instant(format(CliClock), <<"1", "2", ":", "0", "0">>), <<"A">>)
B2 == BookingOf(<<"b", "2">>, S_r2, S_user, Instant(format(CliClock), S_0900),
                Instant(format(CliClock), S_1800), <<>>)
B3 == BookingOf(<<"b", "3">>, S_r1, S_user, Instant(format(CliClock), <<"1", "3", ":", "0", "0">>),
                Instant(format(CliClock), S_1800), <<"A">>)

\* a booking of the day after the run's
B4 == BookingOf(<<"b", "4">>, S_r2, S_user, Instant(format(addDays(CliClock, 1)), S_0900),
                Instant(format(addDays(CliClock, 1)), S_1800), <<"B">>)

BookingLists ==
  {<<>>, <<B1>>, <<B2>>, <<B2, B1>>, <<B1, B3>>, <<B3, B1>>, <<B4, B1>>, <<B1, B4, B3>>}

\* the service applies the resourceId and userId filters of a bookings query
HonoursFilter(list, params) ==
  \A i \in 1..Len(list) :
    /\ params.resourceId \in {NotSet, list[i].resourceId}
    /\ params.userId \in {NotSet, list[i].userId}

\* the service applies the type filter of a resources query
HonoursType(list, params) ==
  \A i \in 1..Len(list) : params.type \in {"", list[i].type}

FailureReplies ==
  { NetworkFailure,
    Reply(401, JsonBody(JsonMessage("unauthorized"))),
    Reply(429, JsonBody(JsonNull)),
    Reply(409, JsonBody(JsonMessage("conflict"))),
    Reply(500, TextBody("Internal Server Error")) }

SuccessReplies(req) ==
  IF req.method = "GET" /\ req.path = "/resources"
  THEN {Reply(200, JsonBody([data |-> l])) : l \in {r \in ResourceLists : HonoursType(r, req.params)}}
  ELSE IF req.method = "GET" /\ req.path = "/offices"
  THEN {Reply(200, JsonBody([data |-> l])) : l \in OfficeLists}
  ELSE IF req.method = "GET" /\ req.path = "/bookings"
  THEN {Reply(200, JsonBody([data |-> l])) : l \in {b \in BookingLists : HonoursFilter(b, req.params)}}
  ELSE IF req.method = "POST"
  THEN {Reply(201, JsonBody(BookingOf(<<"b", "9">>, req.params.resourceId, req.params.userId,
                                      req.params.startTime, req.params.endTime, <<>>)))}
  ELSE IF req.method = "DELETE"
  THEN {Reply(204, EmptyBody), Reply(200, JsonBody([data |-> <<>>]))}
  ELSE {Reply(200, JsonBody(B1)), Reply(200, EmptyBody)}

Replies(req) == FailureReplies \cup SuccessReplies(req)

\* ---- command lines

CliDates ==
  { Absent, Text(S_tomorrow), Text(S_not_a_date),
    Text(<<"3", "2", "/", "1", "/", "2", "0", "2", "4">>),
    Text(<<"2", "0", "2", "4", "-", "0", "2", "-", "3", "0">>) }

CliTimes ==
  {Absent, Text(<<>>), Text(<<"9">>), Text(<<"1", "8", "h", "s">>), Text(<<"2", "5", ":", "0", "0">>)}

CliResourceArgs == {S_r1, S_d1, <<"d">>, <<"z">>}

\* --days of my: commander gives '14' when the option is not written
CliDays == {<<"1", "4">>, <<"1">>, <<"x">>}

CommandLine(cmd, date, start, end, resourceArg, days, apiKey) ==
  [fn |-> "cli", cmd |-> cmd, date |-> date, start |-> start, end |-> end,
   resourceArg |-> resourceArg, days |-> days, apiKey |-> apiKey, now |-> CliClock]

CommandLines ==
  {CommandLine("book", d, st, en, Text(a), <<>>, k) :
     d \in CliDates, st \in CliTimes, en \in CliTimes, a \in CliResourceArgs, k \in BOOLEAN}
    \cup {CommandLine("cancel", d, Absent, Absent, Text(a), <<>>, k) :
            d \in CliDates, a \in CliResourceArgs, k \in BOOLEAN}
    \cup {CommandLine("checkin", d, Absent, Absent, a, <<>>, k) :
            d \in CliDates, a \in {Absent} \cup {Text(x) : x \in CliResourceArgs}, k \in BOOLEAN}
    \cup {CommandLine("list", d, Absent, Absent, Absent, <<>>, k) : d \in CliDates, k \in BOOLEAN}
    \cup {CommandLine("my", Absent, Absent, Absent, Absent, n, k) : n \in CliDays, k \in BOOLEAN}
    \cup {CommandLine(c, Absent, Absent, Absent, Absent, <<>>, k) :
            c \in {"status", "offices", "resources"}, k \in BOOLEAN}

Init ==
  /\ input \in CommandLines
  /\ output = Pending
  /\ pc = "start"
  /\ local = NoLocals
  /\ sent = <<>>
  /\ pending = {}
  /\ replies = <<>>
  /\ console = <<>>
  /\ exitCode = Running

\* the request whose reply the handler is waiting for
AwaitedAt == CHOOSE i \in pending : TRUE
Awaited == sent[AwaitedAt]

\* fetch settles the request at position i of sent with reply
SettleAt(i, reply) == replies' = Append(replies, [of |-> i, reply |-> reply])

\* fetch settles the awaited request with reply
Settle(reply) == SettleAt(AwaitedAt, reply)

\* ---- book

\* book's input steps with the normalisation of --end left for later
BookInputErrorsSkippingEnd(date, apiKey, startTime, endTime) ==
  FirstError(<<ErrorOf(date), ConfigError(apiKey), ErrorOf(startTime)>>)

\* the errors of book's steps before its first request, in the order of the code
BookInputErrors(date, apiKey, startTime, endTime) ==
  FirstError(<<ErrorOf(date), ConfigError(apiKey), ErrorOf(startTime), ErrorOf(endTime)>>)

BookStart ==
  /\ input.fn = "cli" /\ input.cmd = "book" /\ pc = "start"
  /\ LET date == parseDate(input.date, input.now)
         startTime == parseTime(input.start)
         endTime == parseTime(input.end)
         err == BookInputErrors(date, input.apiKey, startTime, endTime)
     IN IF err # NoError
        THEN handleError(err) /\ UNCHANGED <<local, sent>>
        ELSE /\ local' = [local EXCEPT !.date = date.val,
                                       !.startTime = OrDefault(startTime, S_0900),
                                       !.endTime = OrDefault(endTime, S_1800)]
             /\ Await(listResourcesRequest(S_office, ""), "book:resources")
             /\ UNCHANGED <<console, exitCode>>
  /\ UNCHANGED <<input, output, replies>>

BookOnResources ==
  /\ input.fn = "cli" /\ input.cmd = "book" /\ pc = "book:resources"
  /\ \E reply \in Replies(Awaited) :
       /\ Settle(reply)
       /\ LET res == request(reply)
              resources == res.val.data
              resource == findResource(resources, input.resourceArg.text)
          IN IF res.kind = "throw"
             THEN handleError(res) /\ UNCHANGED <<local, sent>>
             ELSE IF resource = NoResource
             THEN /\ Exit(<<Line("stderr", "Resource not found"),
                            Line("stderr", "Available resources")>>, 1)
                  /\ local' = [local EXCEPT !.resources = resources]
                  /\ UNCHANGED sent
             ELSE /\ console' = Append(console, Line("stdout", "Booking..."))
                  /\ local' = [local EXCEPT !.resources = resources, !.resource = resource]
                  /\ Await(createBookingRequest(S_user, resource.id,
                                                Instant(local.date, local.startTime),
                                                Instant(local.date, local.endTime)),
                           "book:create")
                  /\ UNCHANGED exitCode
  /\ UNCHANGED <<input, output>>

BookOnCreated ==
  /\ input.fn = "cli" /\ input.cmd = "book" /\ pc = "book:create"
  /\ \E reply \in Replies(Awaited) :
       /\ Settle(reply)
       /\ LET res == request(reply)
          IN IF res.kind = "throw"
             THEN handleError(res) /\ UNCHANGED <<local, sent>>
             ELSE /\ Return(<<Line("stdout", "Booking confirmed"), Line("stdout", "Booking ID")>>)
                  /\ local' = [local EXCEPT !.booking = res.val]
                  /\ UNCHANGED sent
  /\ UNCHANGED <<input, output>>

\* ---- cancel

\* the last element, where the code takes the first
LastBooking(bookings) == IF Len(bookings) = 0 THEN NoBooking ELSE bookings[Len(bookings)]

\* bookings[0]
FirstBooking(bookings) == IF Len(bookings) = 0 THEN NoBooking ELSE bookings[1]

\* the errors of the steps before the first request of list, cancel and checkin
DateInputErrors(date, apiKey) == FirstError(<<ErrorOf(date), ConfigError(apiKey)>>)

CancelStart ==
  /\ input.fn = "cli" /\ input.cmd = "cancel" /\ pc = "start"
  /\ LET date == parseDate(input.date, input.now)
         err == DateInputErrors(date, input.apiKey)
     IN IF err # NoError
        THEN handleError(err) /\ UNCHANGED <<local, sent>>
        ELSE /\ local' = [local EXCEPT !.date = date.val]
             /\ Await(listResourcesRequest(S_office, ""), "cancel:resources")
             /\ UNCHANGED <<console, exitCode>>
  /\ UNCHANGED <<input, output, replies>>

CancelOnResources ==
  /\ input.fn = "cli" /\ input.cmd = "cancel" /\ pc = "cancel:resources"
  /\ \E reply \in Replies(Awaited) :
       /\ Settle(reply)
       /\ LET res == request(reply)
              resources == res.val.data
              resource == findResource(resources, input.resourceArg.text)
          IN IF res.kind = "throw"
             THEN handleError(res) /\ UNCHANGED <<local, sent>>
             ELSE IF resource = NoResource
             THEN /\ Exit(<<Line("stderr", "Resource not found")>>, 1)
                  /\ local' = [local EXCEPT !.resources = resources]
                  /\ UNCHANGED sent
             ELSE /\ local' = [local EXCEPT !.resources = resources, !.resource = resource]
                  /\ Await(listBookingsRequest(local.date, local.date, S_user, NotSet, resource.id),
                           "cancel:bookings")
                  /\ UNCHANGED <<console, exitCode>>
  /\ UNCHANGED <<input, output>>

CancelOnBookings ==
  /\ input.fn = "cli" /\ input.cmd = "cancel" /\ pc = "cancel:bookings"
  /\ \E reply \in Replies(Awaited) :
       /\ Settle(reply)
       /\ LET res == request(reply)
              bookings == res.val.data
              booking == FirstBooking(bookings)
          IN IF res.kind = "throw"
             THEN handleError(res) /\ UNCHANGED <<local, sent>>
             ELSE IF Len(bookings) = 0
             THEN /\ Exit(<<Line("stdout", "No booking found")>>, 1)
                  /\ local' = [local EXCEPT !.bookings = bookings]
                  /\ UNCHANGED sent
             ELSE /\ console' = Append(console, Line("stdout", "Cancelling booking..."))
                  /\ local' = [local EXCEPT !.bookings = bookings, !.booking = booking]
                  /\ Await(cancelBookingRequest(booking.id), "cancel:delete")
                  /\ UNCHANGED exitCode
  /\ UNCHANGED <<input, output>>

CancelOnDeleted ==
  /\ input.fn = "cli" /\ input.cmd = "cancel" /\ pc = "cancel:delete"
  /\ \E reply \in Replies(Awaited) :
       /\ Settle(reply)
       /\ LET res == request(reply)
          IN IF res.kind = "throw"
             THEN handleError(res)
             ELSE Return(<<Line("stdout", "Booking cancelled")>>)
  /\ UNCHANGED <<input, output, local, sent>>

\* ---- checkin

\* bookings.filter(b => b.resourceId === resource.id), applied only when the
\* lookup found a resource
FilterByResource(bookings, resource) ==
  LET OnResource(b) == b.resourceId = resource.id
  IN IF resource # NoResource THEN SelectSeq(bookings, OnResource) ELSE bookings

\* the end of checkin: no booking is a failure, otherwise the first is checked in
CheckinFirst(locals, bookings) ==
  IF Len(bookings) = 0
  THEN /\ Exit(<<Line("stdout", "No booking found")>>, 1)
       /\ local' = [locals EXCEPT !.bookings = bookings]
       /\ UNCHANGED sent
  ELSE /\ console' = Append(console, Line("stdout", "Checking in..."))
       /\ local' = [locals EXCEPT !.bookings = bookings, !.booking = FirstBooking(bookings)]
       /\ Await(checkInRequest(FirstBooking(bookings).id), "checkin:checkin")
       /\ UNCHANGED exitCode

CheckinStart ==
  /\ input.fn = "cli" /\ input.cmd = "checkin" /\ pc = "start"
  /\ LET date == parseDate(input.date, input.now)
         err == DateInputErrors(date, input.apiKey)
     IN IF err # NoError
        THEN handleError(err) /\ UNCHANGED <<local, sent>>
        ELSE /\ local' = [local EXCEPT !.date = date.val]
             /\ Await(listBookingsRequest(date.val, date.val, S_user, S_office, NotSet),
                      "checkin:bookings")
             /\ UNCHANGED <<console, exitCode>>
  /\ UNCHANGED <<input, output, replies>>

CheckinOnBookings ==
  /\ input.fn = "cli" /\ input.cmd = "checkin" /\ pc = "checkin:bookings"
  /\ \E reply \in Replies(Awaited) :
       /\ Settle(reply)
       /\ LET res == request(reply)
          IN IF res.kind = "throw"
             THEN handleError(res) /\ UNCHANGED <<local, sent>>
             ELSE IF Truthy(input.resourceArg)
             THEN /\ local' = [local EXCEPT !.bookings = res.val.data]
                  /\ Await(listResourcesRequest(S_office, ""), "checkin:resources")
                  /\ UNCHANGED <<console, exitCode>>
             ELSE CheckinFirst(local, res.val.data)
  /\ UNCHANGED <<input, output>>

CheckinOnResources ==
  /\ input.fn = "cli" /\ input.cmd = "checkin" /\ pc = "checkin:resources"
  /\ \E reply \in Replies(Awaited) :
       /\ Settle(reply)
       /\ LET res == request(reply)
              resources == res.val.data
              resource == findResource(resources, input.resourceArg.text)
          IN IF res.kind = "throw"
             THEN handleError(res) /\ UNCHANGED <<local, sent>>
             ELSE CheckinFirst([local EXCEPT !.resources = resources, !.resource = resource],
                               FilterByResource(local.bookings, resource))
  /\ UNCHANGED <<input, output>>

CheckinOnCheckedIn ==
  /\ input.fn = "cli" /\ input.cmd = "checkin" /\ pc = "checkin:checkin"
  /\ \E reply \in Replies(Awaited) :
       /\ Settle(reply)
       /\ LET res == request(reply)
          IN IF res.kind = "throw"
             THEN handleError(res)
             ELSE Return(<<Line("stdout", "Checked in!")>>)
  /\ UNCHANGED <<input, output, local, sent>>

\* ---- list

\* the keys of byType in insertion order: each type at its first occurrence
RECURSIVE TypesInOrder(_)
TypesInOrder(resources) ==
  IF Len(resources) = 0 THEN <<>>
  ELSE LET before == TypesInOrder(SubSeq(resources, 1, Len(resources) - 1))
           type == resources[Len(resources)].type
       IN IF \E i \in 1..Len(before) : before[i] = type THEN before ELSE Append(before, type)

\* `${start}-${end} ${user}` of one booking
Slot(b) ==
  [start |-> formatTime(b.startTime), end |-> formatTime(b.endTime),
   user |-> IF b.firstName # <<>> THEN b.firstName ELSE <<"R", "e", "s", "e", "r", "v", "e", "d">>]

RECURSIVE Slots(_)
Slots(bookings) ==
  IF Len(bookings) = 0 THEN <<>> ELSE <<Slot(Head(bookings))>> \o Slots(Tail(bookings))

\* a resource line that counts every booking of the day, whatever its resource
ResourceLineOfAnyBooking(resource, bookings) ==
  [stream |-> "stdout",
   msg |-> IF Len(bookings) > 0 THEN "occupied" ELSE "Available",
   error |-> "none", statusCode |-> 0,
   resource |-> resource.name, type |-> resource.type, slots |-> Slots(bookings)]

\* the line printed for one resource
ResourceLine(resource, bookings) ==
  LET OnResource(b) == b.resourceId = resource.id
      resourceBookings == SelectSeq(bookings, OnResource)
  IN [stream |-> "stdout",
      msg |-> IF Len(resourceBookings) > 0 THEN "occupied" ELSE "Available",
      error |-> "none", statusCode |-> 0,
      resource |-> resource.name, type |-> resource.type, slots |-> Slots(resourceBookings)]

RECURSIVE ResourceLines(_, _)
ResourceLines(resources, bookings) ==
  IF Len(resources) = 0 THEN <<>>
  ELSE <<ResourceLine(Head(resources), bookings)>> \o ResourceLines(Tail(resources), bookings)

\* the lines of list after both replies: per type a heading, its resources, a blank line
RECURSIVE TypeGroups(_, _, _)
TypeGroups(types, resources, bookings) ==
  IF Len(types) = 0 THEN <<>>
  ELSE LET OfType(r) == r.type = Head(types)
       IN <<[Line("stdout", "type heading") EXCEPT !.msg = Head(types)]>>
            \o ResourceLines(SelectSeq(resources, OfType), bookings)
            \o <<Line("stdout", "")>>
            \o TypeGroups(Tail(types), resources, bookings)

ListStart ==
  /\ input.fn = "cli" /\ input.cmd = "list" /\ pc = "start"
  /\ LET date == parseDate(input.date, input.now)
         heading == IF date.kind = "value" THEN ErrorOf(formatDate(date.val)) ELSE NoError
         err == FirstError(<<DateInputErrors(date, input.apiKey), heading>>)
     IN IF err # NoError
        THEN handleError(err) /\ UNCHANGED <<local, sent>>
        ELSE /\ local' = [local EXCEPT !.date = date.val]
             /\ console' = Append(console, Line("stdout", "Resources for"))
             /\ Await(listResourcesRequest(S_office, ""), "list:resources")
             /\ UNCHANGED exitCode
  /\ UNCHANGED <<input, output, replies>>

ListOnResources ==
  /\ input.fn = "cli" /\ input.cmd = "list" /\ pc = "list:resources"
  /\ \E reply \in Replies(Awaited) :
       /\ Settle(reply)
       /\ LET res == request(reply)
          IN IF res.kind = "throw"
             THEN handleError(res) /\ UNCHANGED <<local, sent>>
             ELSE /\ local' = [local EXCEPT !.resources = res.val.data]
                  /\ Await(listBookingsRequest(local.date, local.date, NotSet, S_office, NotSet),
                           "list:bookings")
                  /\ UNCHANGED <<console, exitCode>>
  /\ UNCHANGED <<input, output>>

ListOnBookings ==
  /\ input.fn = "cli" /\ input.cmd = "list" /\ pc = "list:bookings"
  /\ \E reply \in Replies(Awaited) :
       /\ Settle(reply)
       /\ LET res == request(reply)
          IN IF res.kind = "throw"
             THEN handleError(res) /\ UNCHANGED local
             ELSE /\ Return(TypeGroups(TypesInOrder(local.resources), local.resources,
                                       res.val.data))
                  /\ local' = [local EXCEPT !.bookings = res.val.data]
  /\ UNCHANGED <<input, output, sent>>

\* ---- my

\* the keys of byDate in insertion order: each start date at its first occurrence
RECURSIVE DatesInOrder(_)
DatesInOrder(bookings) ==
  IF Len(bookings) = 0 THEN <<>>
  ELSE LET before == DatesInOrder(SubSeq(bookings, 1, Len(bookings) - 1))
           date == splitBy(bookings[Len(bookings)].startTime, "T")[1]
       IN IF \E i \in 1..Len(before) : before[i] = date THEN before ELSE Append(before, date)

\* the line printed for one booking of my
BookingLine(b) ==
  [stream |-> "stdout", msg |-> "booking", error |-> "none", statusCode |-> 0,
   booking |-> b.id, resource |-> b.resourceId,
   start |-> formatTime(b.startTime), end |-> formatTime(b.endTime)]

RECURSIVE BookingLines(_)
BookingLines(bookings) ==
  IF Len(bookings) = 0 THEN <<>>
  ELSE <<BookingLine(Head(bookings))>> \o BookingLines(Tail(bookings))

\* the date groups of my: per date a heading and its bookings, up to the first
\* date that formatDate throws on
RECURSIVE DateGroups(_, _)
DateGroups(dates, bookings) ==
  IF Len(dates) = 0 THEN [lines |-> <<>>, err |-> NoError]
  ELSE IF formatDate(Head(dates)).kind = "throw"
  THEN [lines |-> <<>>, err |-> ErrorOf(formatDate(Head(dates)))]
  ELSE LET OnDate(b) == splitBy(b.startTime, "T")[1] = Head(dates)
           rest == DateGroups(Tail(dates), bookings)
       IN [lines |-> <<[stream |-> "stdout", msg |-> "date heading", error |-> "none",
                        statusCode |-> 0, date |-> Head(dates)]>>
                       \o BookingLines(SelectSeq(bookings, OnDate)) \o rest.lines,
           err |-> rest.err]

MyStart ==
  /\ input.fn = "cli" /\ input.cmd = "my" /\ pc = "start"
  /\ LET days == parseInt(input.days)
         err == FirstError(<<IF days.nan THEN Rejected("RangeError") ELSE NoError,
                             ConfigError(input.apiKey)>>)
     IN IF err # NoError
        THEN handleError(err) /\ UNCHANGED <<local, sent>>
        ELSE /\ Await(listBookingsRequest(format(input.now), format(addDays(input.now, days.n)),
                                          S_user, NotSet, NotSet),
                      "my:bookings")
             /\ UNCHANGED <<local, console, exitCode>>
  /\ UNCHANGED <<input, output, replies>>

MyOnBookings ==
  /\ input.fn = "cli" /\ input.cmd = "my" /\ pc = "my:bookings"
  /\ \E reply \in Replies(Awaited) :
       /\ Settle(reply)
       /\ LET res == request(reply)
              groups == DateGroups(DatesInOrder(res.val.data), res.val.data)
          IN IF res.kind = "throw"
             THEN handleError(res) /\ UNCHANGED local
             ELSE /\ local' = [local EXCEPT !.bookings = res.val.data]
                  /\ IF Len(res.val.data) = 0
                     THEN Return(<<Line("stdout", "My bookings"),
                                   Line("stdout", "No upcoming bookings.")>>)
                     ELSE IF groups.err # NoError
                     THEN /\ console' = console \o <<Line("stdout", "My bookings")>> \o groups.lines
                                          \o <<[stream |-> "stderr", msg |-> "Error",
                                                error |-> groups.err.error, statusCode |-> 0]>>
                          /\ exitCode' = 1
                          /\ pc' = "exited"
                          /\ pending' = {}
                     ELSE Return(<<Line("stdout", "My bookings")>> \o groups.lines
                                   \o <<Line("stdout", "")>>)
  /\ UNCHANGED <<input, output, sent>>

\* ---- status

\* Promise.all over calls that each run up to their fetch: all requests are handed
\* to fetch, in order, before the handler is suspended
PromiseAll(reqs, next) ==
  /\ sent' = sent \o reqs
  /\ pending' = (Len(sent) + 1)..(Len(sent) + Len(reqs))
  /\ pc' = next

\* `${start}-${end} ${user}`.trim() of one booking
StatusSlot(b) ==
  [start |-> formatTime(b.startTime), end |-> formatTime(b.endTime), user |-> b.firstName]

RECURSIVE StatusSlots(_)
StatusSlots(bookings) ==
  IF Len(bookings) = 0 THEN <<>>
  ELSE <<StatusSlot(Head(bookings))>> \o StatusSlots(Tail(bookings))

RECURSIVE StatusLines(_, _, _)
StatusLines(label, resources, bookings) ==
  IF Len(resources) = 0 THEN <<>>
  ELSE LET OnResource(b) == b.resourceId = Head(resources).id
           resourceBookings == SelectSeq(bookings, OnResource)
       IN <<[stream |-> "stdout",
             msg |-> IF Len(resourceBookings) > 0 THEN "occupied" ELSE "Free",
             error |-> "none", statusCode |-> 0, day |-> label,
             resource |-> Head(resources).name, slots |-> StatusSlots(resourceBookings)]>>
            \o StatusLines(label, Tail(resources), bookings)

\* a day report that counts every booking of the day for every resource
showDayOfAnyBooking(label, resources, bookings) ==
  <<Line("stdout", label)>>
    \o [n \in 1..Len(resources) |->
         [stream |-> "stdout",
          msg |-> IF Len(bookings) > 0 THEN "occupied" ELSE "Free",
          error |-> "none", statusCode |-> 0, day |-> label,
          resource |-> resources[n].name, slots |-> StatusSlots(bookings)]]

\* showDay(label, bookings)
showDay(label, resources, bookings) ==
  <<Line("stdout", label)>> \o StatusLines(label, resources, bookings)

StatusStart ==
  /\ input.fn = "cli" /\ input.cmd = "status" /\ pc = "start"
  /\ IF ConfigError(input.apiKey) # NoError
     THEN handleError(ConfigError(input.apiKey)) /\ UNCHANGED <<local, sent>>
     ELSE LET today == format(input.now)
              tomorrow == format(addDays(input.now, 1))
          IN /\ PromiseAll(<<listBookingsRequest(today, today, NotSet, S_office, NotSet),
                             listBookingsRequest(tomorrow, tomorrow, NotSet, S_office, NotSet),
                             listResourcesRequest(S_office, "flexDesk")>>,
                           "status:all")
             /\ UNCHANGED <<local, console, exitCode>>
  /\ UNCHANGED <<input, output, replies>>

\* one of the three requests settles: a failure rejects Promise.all at once, a
\* value is kept at its position, and the handler goes on when none is pending
StatusOnReply ==
  /\ input.fn = "cli" /\ input.cmd = "status" /\ pc = "status:all"
  /\ \E i \in pending : \E reply \in Replies(sent[i]) :
       /\ SettleAt(i, reply)
       /\ LET res == request(reply)
              got == CASE i = 1 -> [local EXCEPT !.bookings = res.val.data]
                       [] i = 2 -> [local EXCEPT !.tomorrowBookings = res.val.data]
                       [] OTHER -> [local EXCEPT !.resources = res.val.data]
          IN IF res.kind = "throw"
             THEN handleError(res) /\ UNCHANGED local
             ELSE /\ local' = got
                  /\ IF pending = {i}
                     THEN Return(<<Line("stdout", "Status")>>
                                   \o showDay("Today:", got.resources, got.bookings)
                                   \o <<Line("stdout", "")>>
                                   \o showDay("Tomorrow:", got.resources, got.tomorrowBookings)
                                   \o <<Line("stdout", "")>>)
                     ELSE /\ pending' = pending \ {i}
                          /\ UNCHANGED <<pc, console, exitCode>>
  /\ UNCHANGED <<input, output, sent>>

\* ---- offices

\* the two lines printed for one office
RECURSIVE OfficeLines(_)
OfficeLines(offices) ==
  IF Len(offices) = 0 THEN <<>>
  ELSE <<[stream |-> "stdout", msg |-> "office", error |-> "none", statusCode |-> 0,
          office |-> Head(offices).name, isDefault |-> Head(offices).id = S_office],
         [stream |-> "stdout", msg |-> "ID", error |-> "none", statusCode |-> 0,
          id |-> Head(offices).id]>>
         \o OfficeLines(Tail(offices))

OfficesStart ==
  /\ input.fn = "cli" /\ input.cmd = "offices" /\ pc = "start"
  /\ IF ConfigError(input.apiKey) # NoError
     THEN handleError(ConfigError(input.apiKey)) /\ UNCHANGED sent
     ELSE Await(listOfficesRequest, "offices:offices") /\ UNCHANGED <<console, exitCode>>
  /\ UNCHANGED <<input, output, local, replies>>

OfficesOnOffices ==
  /\ input.fn = "cli" /\ input.cmd = "offices" /\ pc = "offices:offices"
  /\ \E reply \in Replies(Awaited) :
       /\ Settle(reply)
       /\ LET res == request(reply)
          IN IF res.kind = "throw"
             THEN handleError(res) /\ UNCHANGED local
             ELSE /\ local' = [local EXCEPT !.offices = res.val.data]
                  /\ Return(<<Line("stdout", "Offices")>> \o OfficeLines(res.val.data)
                              \o <<Line("stdout", "")>>)
  /\ UNCHANGED <<input, output, sent>>

\* ---- resources

\* the two lines printed for one resource
RECURSIVE ResourceEntries(_)
ResourceEntries(resources) ==
  IF Len(resources) = 0 THEN <<>>
  ELSE <<[stream |-> "stdout", msg |-> "resource", error |-> "none", statusCode |-> 0,
          resource |-> Head(resources).name],
         [stream |-> "stdout", msg |-> "ID", error |-> "none", statusCode |-> 0,
          id |-> Head(resources).id]>>
         \o ResourceEntries(Tail(resources))

\* per type a heading with the count, its resources, a blank line
RECURSIVE ResourceGroups(_, _)
ResourceGroups(types, resources) ==
  IF Len(types) = 0 THEN <<>>
  ELSE LET OfType(r) == r.type = Head(types)
       IN <<[stream |-> "stdout", msg |-> Head(types), error |-> "none", statusCode |-> 0,
             count |-> Len(SelectSeq(resources, OfType))]>>
            \o ResourceEntries(SelectSeq(resources, OfType))
            \o <<Line("stdout", "")>>
            \o ResourceGroups(Tail(types), resources)

ResourcesStart ==
  /\ input.fn = "cli" /\ input.cmd = "resources" /\ pc = "start"
  /\ IF ConfigError(input.apiKey) # NoError
     THEN handleError(ConfigError(input.apiKey)) /\ UNCHANGED sent
     ELSE Await(listResourcesRequest(S_office, ""), "resources:resources")
            /\ UNCHANGED <<console, exitCode>>
  /\ UNCHANGED <<input, output, local, replies>>

ResourcesOnResources ==
  /\ input.fn = "cli" /\ input.cmd = "resources" /\ pc = "resources:resources"
  /\ \E reply \in Replies(Awaited) :
       /\ Settle(reply)
       /\ LET res == request(reply)
          IN IF res.kind = "throw"
             THEN handleError(res) /\ UNCHANGED local
             ELSE /\ local' = [local EXCEPT !.resources = res.val.data]
                  /\ Return(<<Line("stdout", "Resources")>>
                              \o ResourceGroups(TypesInOrder(res.val.data), res.val.data))
  /\ UNCHANGED <<input, output, sent>>

Next ==
  \/ BookStart
  \/ BookOnResources
  \/ BookOnCreated
  \/ CancelStart
  \/ CancelOnResources
  \/ CancelOnBookings
  \/ CancelOnDeleted
  \/ CheckinStart
  \/ CheckinOnBookings
  \/ CheckinOnResources
  \/ CheckinOnCheckedIn
  \/ ListStart
  \/ ListOnResources
  \/ ListOnBookings
  \/ MyStart
  \/ MyOnBookings
  \/ StatusStart
  \/ StatusOnReply
  \/ OfficesStart
  \/ OfficesOnOffices
  \/ ResourcesStart
  \/ ResourcesOnResources

Spec == Init /\ [][Next]_vars

\* ------------------------------------------------------------------ C3 .. C8

\* the positions in sent of the requests of one kind
SentAs(method, path) ==
  {i \in 1..Len(sent) : sent[i].method = method /\ sent[i].path = path}

Creates == SentAs("POST", "/bookings")
Deletes == SentAs("DELETE", "/bookings/{id}")
CheckIns == SentAs("PATCH", "/bookings/{id}/check-in")

\* the settled replies to requests of one kind that were a success with a JSON body
Listings(path) ==
  {k \in 1..Len(replies) :
     /\ sent[replies[k].of].method = "GET" /\ sent[replies[k].of].path = path
     /\ replies[k].reply.net = "ok"
     /\ replies[k].reply.status \in 200..299
     /\ replies[k].reply.body.syntax = "json"}

ListedItems(k) == replies[k].reply.body.doc.data

Printed(msg) == \E i \in 1..Len(console) : console[i].msg = msg

RunsCommand(cmd) == input.fn = "cli" /\ input.cmd = cmd

\* C3: in cancel, a DELETE is sent only after a successful listing of the user's
\* bookings for the resolved resource and date that returned at least one
\* booking, and it names the first booking listed; when the listing is empty the
\* command fails with "No booking found" and exit status 1 and sends no DELETE;
\* when it is not empty exactly one DELETE is sent.
C3_CancelAfterListing ==
  RunsCommand("cancel") =>
    /\ \A i \in Deletes :
         \E k \in Listings("/bookings") :
           /\ replies[k].of < i
           /\ sent[replies[k].of] =
                listBookingsRequest(local.date, local.date, S_user, NotSet, local.resource.id)
           /\ local.resource # NoResource
           /\ Len(ListedItems(k)) >= 1
           /\ sent[i].params.bookingId = ListedItems(k)[1].id
    /\ \A k \in Listings("/bookings") :
         IF Len(ListedItems(k)) = 0
         THEN exitCode = 1 /\ Printed("No booking found") /\ Deletes = {}
         ELSE Cardinality(Deletes) = 1

\* cancel has sent its DELETE after a listing of two bookings
C3_Witness ==
  /\ RunsCommand("cancel")
  /\ Deletes # {}
  /\ \E k \in Listings("/bookings") : ListedItems(k) = <<B3, B1>>

\* C4: no request is sent twice in one run, whatever the reply, and a run sends at
\* most one create-booking POST, one DELETE and one check-in PATCH.
C4_NoRetry ==
  input.fn = "cli" =>
    /\ \A i, j \in 1..Len(sent) : i # j => sent[i] # sent[j]
    /\ Cardinality(Creates) <= 1
    /\ Cardinality(Deletes) <= 1
    /\ Cardinality(CheckIns) <= 1

\* book has ended after its create-booking request was answered with 429
C4_Witness ==
  /\ RunsCommand("book")
  /\ exitCode = 1
  /\ \E k \in 1..Len(replies) :
       replies[k].of \in Creates /\ replies[k].reply.net = "ok" /\ replies[k].reply.status = 429

\* whether the command line carries a date or time that normalisation rejects
RejectedInput ==
  \/ parseDate(input.date, input.now).kind = "throw"
  \/ /\ input.cmd = "book"
     /\ parseTime(input.start).kind = "throw" \/ parseTime(input.end).kind = "throw"

\* C5: in list, book, cancel and checkin a --date that date normalisation rejects,
\* or for book a --start or --end that time normalisation rejects, ends the
\* command with exit status 1 without any request having been sent.
C5_InputsCheckedFirst ==
  (input.fn = "cli" /\ input.cmd \in {"list", "book", "cancel", "checkin"} /\ RejectedInput) =>
    /\ sent = <<>>
    /\ pc = "start" \/ (pc = "exited" /\ exitCode = 1)

\* book has ended on an --end of "25:00" with all else in order
C5_Witness ==
  /\ RunsCommand("book")
  /\ input.end = Text(<<"2", "5", ":", "0", "0">>)
  /\ input.apiKey
  /\ parseDate(input.date, input.now).kind = "value"
  /\ parseTime(input.start).kind # "throw"
  /\ pc = "exited"

\* the settled replies to a DELETE that were a success with an empty body
EmptyDeleteSuccesses ==
  {k \in 1..Len(replies) :
     /\ replies[k].of \in Deletes
     /\ replies[k].reply.net = "ok"
     /\ replies[k].reply.status \in 200..299
     /\ replies[k].reply.body = EmptyBody}

\* C6: the DELETE carries no body, and when it is answered with a 2xx response with
\* an empty body the cancel command reports the booking as cancelled and does not
\* end with a failure status.
C6_EmptyCancelSucceeds ==
  RunsCommand("cancel") =>
    /\ \A i \in Deletes : sent[i].params = [NoParams EXCEPT !.bookingId = sent[i].params.bookingId]
    /\ EmptyDeleteSuccesses # {} => (Printed("Booking cancelled") /\ exitCode = 0)

\* a DELETE has been answered 204 with an empty body
C6_Witness == RunsCommand("cancel") /\ EmptyDeleteSuccesses # {}

\* the bookings of a list that are on resource r
BookingsOn(bookings, r) ==
  LET OnResource(b) == b.resourceId = r.id IN SelectSeq(bookings, OnResource)

\* C7: in checkin with a resource token, a check-in is sent only for a booking on
\* the resource the token resolves to, the first of the day's bookings on it; when
\* the token matches no resource of the office the command fails and sends no
\* check-in. With or without a token, an empty (filtered) list of bookings fails
\* with "No booking found" and no check-in, otherwise the first is checked in.
C7_CheckinOnResolvedResource ==
  RunsCommand("checkin") =>
    /\ \A kr \in Listings("/resources"), kb \in Listings("/bookings") :
         LET resource == findResource(ListedItems(kr), input.resourceArg.text)
             mine == BookingsOn(ListedItems(kb), resource)
         IN IF resource = NoResource
            THEN exitCode = 1 /\ CheckIns = {}
            ELSE IF Len(mine) = 0
            THEN exitCode = 1 /\ Printed("No booking found") /\ CheckIns = {}
            ELSE \A i \in CheckIns : sent[i].params.bookingId = mine[1].id
    /\ ~Truthy(input.resourceArg) =>
         \A kb \in Listings("/bookings") :
           IF Len(ListedItems(kb)) = 0
           THEN exitCode = 1 /\ Printed("No booking found") /\ CheckIns = {}
           ELSE \A i \in CheckIns : sent[i].params.bookingId = ListedItems(kb)[1].id
    /\ \A i \in CheckIns : Listings("/bookings") # {}

\* checkin was given a token that matches no resource while the user has a booking
C7_Witness ==
  /\ RunsCommand("checkin")
  /\ input.resourceArg = Text(<<"z">>)
  /\ \E kr \in Listings("/resources") : ListedItems(kr) = <<R1, R2>>
  /\ \E kb \in Listings("/bookings") : ListedItems(kb) = <<B1>>

\* minutes since midnight of the HH:MM inside an instant
MinutesOf(isoDateTime) ==
  60 * DigitsValue(SubSeq(formatTime(isoDateTime), 1, 2))
    + DigitsValue(SubSeq(formatTime(isoDateTime), 4, 5))

\* C8: every create-booking request sent by book carries a start strictly before
\* its end, for every accepted --start and --end and for the defaults.
C8_StartBeforeEnd ==
  RunsCommand("book") =>
    \A i \in Creates : MinutesOf(sent[i].params.startTime) < MinutesOf(sent[i].params.endTime)

\* book has sent a create-booking request for --start 18hs --end 9
C8_Witness ==
  /\ RunsCommand("book")
  /\ input.start = Text(<<"1", "8", "h", "s">>)
  /\ input.end = Text(<<"9">>)
  /\ Creates # {}

\* ------------------------------------------------------------------ C11 .. C15

\* the console positions of the lines list prints for resources, and of its type headings
ResourceLinesAt == {i \in 1..Len(console) : console[i].msg \in {"occupied", "Available"}}
TypeHeadingsAt ==
  {i \in 1..Len(console) : console[i].msg \in {"flexDesk", "meetingRoom", "parking", "other"}}

\* the type heading a console line stands under
HeadingOver(i) ==
  LET above == {h \in TypeHeadingsAt : h < i}
  IN IF above = {} THEN "none" ELSE console[CHOOSE h \in above : \A g \in above : g <= h].msg

\* the HH:MM of an instant "YYYY-MM-DDTHH:MM:00.000Z"
ClockOf(instant) == SubSeq(instant, 12, 16)

\* the range and occupant stated for one booking
StatedSlot(b) ==
  [start |-> ClockOf(b.startTime), end |-> ClockOf(b.endTime),
   user |-> IF b.firstName = <<>> THEN <<"R", "e", "s", "e", "r", "v", "e", "d">> ELSE b.firstName]

\* C11: when list has printed its report, every fetched resource has exactly one
\* line, under the heading of its own type; the line says Available exactly when
\* no fetched booking is on that resource, and otherwise carries one entry per
\* booking on that resource, in order, with that booking's start-end range and
\* occupant; no other resource lines are printed.
C11_ListAvailability ==
  (RunsCommand("list") /\ pc = "done") =>
    /\ \A n \in 1..Len(local.resources) :
         LET r == local.resources[n]
             mine == BookingsOn(local.bookings, r)
             at == {i \in ResourceLinesAt : console[i].resource = r.name}
         IN /\ Cardinality(at) = 1
            /\ \A i \in at :
                 /\ HeadingOver(i) = r.type
                 /\ (console[i].msg = "Available") <=> (Len(mine) = 0)
                 /\ Len(console[i].slots) = Len(mine)
                 /\ \A k \in 1..Len(mine) : console[i].slots[k] = StatedSlot(mine[k])
    /\ Cardinality(ResourceLinesAt) = Len(local.resources)

\* list has reported three resources of two types, with two bookings on one of them
C11_Witness ==
  /\ RunsCommand("list") /\ pc = "done"
  /\ local.resources = <<R1, R3, R2>>
  /\ local.bookings = <<B3, B1>>

\* the console positions of the date headings and of the booking lines of my
DateHeadingsAt == {i \in 1..Len(console) : console[i].msg = "date heading"}
BookingLinesAt == {i \in 1..Len(console) : console[i].msg = "booking"}

\* the date heading a console line stands under
DateOver(i) ==
  LET above == {h \in DateHeadingsAt : h < i}
  IN IF above = {} THEN <<>> ELSE console[CHOOSE h \in above : \A g \in above : g <= h].date

\* a "YYYY-MM-DD" text as a number that orders dates
DayNumber(date) ==
  10000 * DigitsValue(SubSeq(date, 1, 4)) + 100 * DigitsValue(SubSeq(date, 6, 7))
    + DigitsValue(SubSeq(date, 9, 10))

\* the date part of an instant "YYYY-MM-DDTHH:MM:00.000Z"
DayOf(instant) == SubSeq(instant, 1, 10)

\* C12: my asks for the user's bookings from today through today + N days; when it
\* has printed them, the date headings are in ascending date order, whatever the
\* order of the bookings in the reply, and every booking returned has exactly
\* one line, under the heading of the date part of its start time.
C12_MyGroupedByDate ==
  RunsCommand("my") =>
    /\ \A i \in 1..Len(sent) :
         sent[i] = listBookingsRequest(format(input.now),
                                       format(addDays(input.now, DigitsValue(input.days))),
                                       S_user, NotSet, NotSet)
    /\ pc = "done" =>
         /\ \A g, h \in DateHeadingsAt :
              g < h => DayNumber(console[g].date) < DayNumber(console[h].date)
         /\ \A n \in 1..Len(local.bookings) :
              LET at == {i \in BookingLinesAt : console[i].booking = local.bookings[n].id}
              IN /\ Cardinality(at) = 1
                 /\ \A i \in at : DateOver(i) = DayOf(local.bookings[n].startTime)
         /\ Cardinality(BookingLinesAt) = Len(local.bookings)

\* my has printed a reply that lists tomorrow's booking ahead of today's
C12_Witness ==
  /\ RunsCommand("my") /\ pc = "done"
  /\ local.bookings = <<B4, B1>>

\* the settled replies that are a network failure or a non-2xx response
FailedReplies ==
  {k \in 1..Len(replies) :
     replies[k].reply.net = "failed" \/ replies[k].reply.status \notin 200..299}

\* an input or configuration step of the command has failed
InputFailed ==
  /\ input.fn = "cli" /\ pc # "start"
  /\ \/ ~input.apiKey
     \/ input.cmd \in {"list", "book", "cancel", "checkin"} /\ RejectedInput
     \/ input.cmd = "my" /\ parseInt(input.days).nan

\* the token of book, cancel or checkin was looked up in a fetched list and matched nothing
ResourceNotFound ==
  /\ input.fn = "cli" /\ input.cmd \in {"book", "cancel", "checkin"}
  /\ Truthy(input.resourceArg)
  /\ \E kr \in Listings("/resources") :
       findResource(ListedItems(kr), input.resourceArg.text) = NoResource

\* cancel or checkin found no booking to act on
BookingNotFound ==
  \/ /\ RunsCommand("cancel")
     /\ \E kb \in Listings("/bookings") : Len(ListedItems(kb)) = 0
  \/ /\ RunsCommand("checkin") /\ ~Truthy(input.resourceArg)
     /\ \E kb \in Listings("/bookings") : Len(ListedItems(kb)) = 0
  \/ /\ RunsCommand("checkin") /\ Truthy(input.resourceArg)
     /\ \E kr \in Listings("/resources"), kb \in Listings("/bookings") :
          LET resource == findResource(ListedItems(kr), input.resourceArg.text)
          IN resource # NoResource /\ Len(BookingsOn(ListedItems(kb), resource)) = 0

\* some step of the run has failed
StepFailed == InputFailed \/ FailedReplies # {} \/ ResourceNotFound \/ BookingNotFound

\* the command has reported success: its success message or its finished report
SuccessPrinted ==
  \/ Printed("Booking confirmed") \/ Printed("Booking cancelled") \/ Printed("Checked in!")
  \/ pc = "done"

\* C13: once a step of a command has failed (invalid input, configuration error,
\* resource or booking not found, network failure or non-2xx response) the
\* process has exited with status 1 without a success message, and no request is
\* sent from then on; a success message is printed only when every request of
\* the run was answered with a success.
C13_StopsAtFirstFailure ==
  /\ [](StepFailed => (pc = "exited" /\ exitCode = 1 /\ ~SuccessPrinted))
  /\ [][StepFailed => sent' = sent]_vars
  /\ []((input.fn = "cli" /\ SuccessPrinted) =>
          (FailedReplies = {} /\ Len(replies) = Len(sent)))

\* checkin was given a token that matches no resource of the fetched list
C13_Witness ==
  /\ RunsCommand("checkin") /\ ResourceNotFound
  /\ \E kb \in Listings("/bookings") : Len(ListedItems(kb)) > 0

\* "<date>T<HH:MM>:00.000Z"
StatedInstant(date, clock) ==
  date \o <<"T">> \o clock \o <<":", "0", "0", ".", "0", "0", "0", "Z">>

\* the normalized time of an option, the stated default when the option is absent
\* or empty
StatedClock(option, default) == IF ~Truthy(option) THEN default ELSE parseTime(option).val

\* C14: the create-booking request of book carries the current user's id, the id
\* of the resource the token resolves to in the fetched list, and start and end
\* instants "<date>T<HH:MM>:00.000Z" of the normalized date and times, with 09:00
\* for an absent or empty --start and 18:00 for an absent or empty --end, and
\* nothing else; it is
\* sent only after the resource listing succeeded and the token resolved, and no
\* bookings listing is sent before it.
C14_CreateRequest ==
  RunsCommand("book") =>
    \A i \in Creates :
      /\ \E kr \in Listings("/resources") :
           LET resource == findResource(ListedItems(kr), input.resourceArg.text)
           IN /\ replies[kr].of < i
              /\ resource # NoResource
              /\ sent[i].params =
                   [NoParams EXCEPT
                      !.userId = S_user,
                      !.resourceId = resource.id,
                      !.startTime = StatedInstant(parseDate(input.date, input.now).val,
                                                  StatedClock(input.start, <<"0", "9", ":", "0", "0">>)),
                      !.endTime = StatedInstant(parseDate(input.date, input.now).val,
                                                StatedClock(input.end, <<"1", "8", ":", "0", "0">>))]
      /\ \A j \in 1..(i - 1) : ~(sent[j].method = "GET" /\ sent[j].path = "/bookings")

\* book has sent its create-booking request for tomorrow with --end 9 and no --start
C14_Witness ==
  /\ RunsCommand("book")
  /\ input.date = Text(S_tomorrow)
  /\ input.start = Absent
  /\ input.end = Text(<<"9">>)
  /\ Creates # {}

\* the three reads of status, in the order they are handed to Promise.all
StatusReads ==
  <<listBookingsRequest(format(input.now), format(input.now), NotSet, S_office, NotSet),
    listBookingsRequest(format(addDays(input.now, 1)), format(addDays(input.now, 1)),
                        NotSet, S_office, NotSet),
    listResourcesRequest(S_office, "flexDesk")>>

\* the items of the successful reply to the request at position i of sent
ItemsOf(i) ==
  LET k == CHOOSE k \in 1..Len(replies) : replies[k].of = i IN ListedItems(k)

\* all three reads of status have been answered with a success
AllThreeSucceeded ==
  /\ Len(replies) = 3
  /\ FailedReplies = {}
  /\ \A i \in 1..3 : \E k \in 1..Len(replies) : replies[k].of = i

\* the console positions of the free/occupied lines of one day of status
DayLinesAt(label) ==
  {i \in 1..Len(console) : console[i].msg \in {"occupied", "Free"} /\ console[i].day = label}

\* the report of one day as stated: per fetched resource one line, Free exactly when
\* none of that day's bookings is on it, else one entry per booking on it
DayReported(label, resources, bookings) ==
  /\ Cardinality(DayLinesAt(label)) = Len(resources)
  /\ \A n \in 1..Len(resources) :
       LET mine == BookingsOn(bookings, resources[n])
           at == {i \in DayLinesAt(label) : console[i].resource = resources[n].name}
       IN /\ Cardinality(at) = 1
          /\ \A i \in at :
               /\ (console[i].msg = "Free") <=> (Len(mine) = 0)
               /\ Len(console[i].slots) = Len(mine)
               /\ \A k \in 1..Len(mine) :
                    console[i].slots[k] =
                      [start |-> ClockOf(mine[k].startTime), end |-> ClockOf(mine[k].endTime),
                       user |-> mine[k].firstName]

\* C15: status hands its three reads (today's bookings, tomorrow's bookings, the
\* flexDesk resources) to fetch together, before any is answered; in every order
\* of the three answers no output is printed before all three have succeeded; the
\* report then printed depends on the answers only, not on their order, with
\* today's lines drawn from today's bookings and tomorrow's from tomorrow's; and
\* when any of the three fails no free/occupied line is printed and the exit
\* status is 1.
C15_StatusCombinesAfterAll ==
  RunsCommand("status") =>
    /\ sent = <<>> \/ sent = StatusReads
    /\ (\E i \in 1..Len(console) : console[i].stream = "stdout") => AllThreeSucceeded
    /\ AllThreeSucceeded =>
         /\ pc = "done" /\ exitCode = 0
         /\ DayReported("Today:", ItemsOf(3), ItemsOf(1))
         /\ DayReported("Tomorrow:", ItemsOf(3), ItemsOf(2))
         /\ \A i \in DayLinesAt("Today:"), j \in DayLinesAt("Tomorrow:") : i < j
    /\ FailedReplies # {} =>
         /\ pc = "exited" /\ exitCode = 1
         /\ DayLinesAt("Today:") = {} /\ DayLinesAt("Tomorrow:") = {}
         /\ ~Printed("Status")

\* status has printed its report after the resources were answered first and
\* tomorrow's bookings before today's
C15_Witness ==
  /\ RunsCommand("status") /\ pc = "done"
  /\ Len(replies) = 3
  /\ replies[1].of = 3 /\ replies[2].of = 2 /\ replies[3].of = 1
  /\ ItemsOf(3) = <<R1, R2>>
  /\ ItemsOf(1) = <<B1, B3>>
  /\ ItemsOf(2) = <<B4, B1>>

====
